---------------------------- MODULE Spec2Model ----------------------------
(***************************************************************************)
(* A model of the two example widgets of the repository:                   *)
(*   - the path drawing state machine and its Canvas                       *)
(*     (src/examples/bezier_toy.rs), and                                   *)
(*   - the Toolbar widget (src/examples/bez_editor/toolbar.rs).            *)
(*                                                                         *)
(* Coordinates are whole pixels.  A Rust Option<T> is a sequence of length *)
(* 0 (None) or 1 (Some(x)).  Rust indices are kept 0-based; a Vec is a     *)
(* TLA+ sequence, so Vec index i is sequence index i + 1.                  *)
(***************************************************************************)
EXTENDS Integers, Sequences, FiniteSets

VARIABLES
    \* ---- Canvas (bezier_toy.rs) ----
    paths,        \* Canvas.paths : Vec<Path>
    mouse,        \* Canvas.mouse : Point
    state,        \* Canvas.state : State
    ev,           \* the event of the last Canvas handler call
    handled,      \* the value the last Canvas handler returned
    invalidated,  \* whether the last Canvas handler called ctx.invalidate()
    mid,          \* the state before the last handler call's last step on it
    ret,          \* the value done_path returned in the last handler call
    clicks,       \* the positions of the mouse events since the state was
                  \* last Ready, while `pure`
    pure,         \* every mouse and key event since the state was last
                  \* Ready was a single left click
    calls,        \* number of direct done_path calls (DonePathSpec)
    \* ---- Toolbar (toolbar.rs) ----
    items,        \* Toolbar.items : Vec<ToolbarItem>
    selected,     \* Toolbar.selected : usize
    hot,          \* Toolbar.hot : Option<usize>
    active,       \* the framework's capture flag (ctx.is_active())
    tev,          \* the event of the last Toolbar::event call
    thandled,     \* whether that call ran ctx.set_handled()
    tinvalidated, \* whether that call ran ctx.invalidate()
    action,       \* the Option<Action> that call returned
    tclick,       \* the last two events were a MouseDown and a MouseUp at
                  \* one position (a click)
    tpos,         \* the position of the most recent pointer event
                  \* (recorded under PointerSpec)
    tmoved        \* the position of the most recent MouseMoved event
                  \* (recorded under PointerSpec)

cvars == <<paths, mouse, state, ev, handled, invalidated, mid, ret, clicks,
           pure, calls>>
tvars == <<items, selected, hot, active, tev, thandled, tinvalidated, action,
           tclick, tpos, tmoved>>
vars == <<paths, mouse, state, ev, handled, invalidated, mid, ret, clicks,
          pure, calls, items, selected, hot, active, tev, thandled,
          tinvalidated, action, tclick, tpos, tmoved>>

None == <<>>
Some(x) == <<x>>

(***************************************************************************)
(* Bounds of the model.                                                    *)
(***************************************************************************)
\* most points the canvas may hold, over its finalized paths and the path
\* under construction, before a click that adds one is cut off
MaxTotalPoints == 4
\* most finalized paths the canvas may hold before a finalizing click is cut off
MaxPaths == 1
\* longest point sequence of a State handed directly to done_path
MaxArgPoints == 2
\* most direct done_path calls in a row
MaxCalls == 2

(***************************************************************************)
(* bezier_toy.rs                                                           *)
(***************************************************************************)
MIN_POINT_DISTANCE == 3

\* The positions clicks are drawn from: three points pairwise far apart and
\* one point within the threshold of the first.
Points == { <<0, 0>>, <<2, 2>>, <<100, 0>>, <<100, 100>> }
\* The positions pointer moves are drawn from.
MovePoints == { <<2, 2>> }
KeyCodes == {"Backspace", "KeyA"}

\* Point::distance(p, q) < d, for whole-pixel points and a whole d:
\* sqrt(dx^2 + dy^2) < d  <=>  dx^2 + dy^2 < d^2
DistanceLess(p, q, d) ==
    (p[1] - q[1]) * (p[1] - q[1]) + (p[2] - q[2]) * (p[2] - q[2]) < d * d

\* Path::default()
PathDefault == [points |-> <<>>, closed |-> FALSE]

\* Path::start(pos)
PathStart(pos) == [points |-> <<pos>>, closed |-> FALSE]

\* push that inserts the point at the front
PathPush_front(path, point) == [path EXCEPT !.points = <<point>> \o @]

\* Path::push(&mut self, point)
PathPush(path, point) == [path EXCEPT !.points = Append(@, point)]

\* Path::close(&mut self)
PathClose(path) == [path EXCEPT !.closed = TRUE]

\* enum State { Ready, Drawing(Path), Done(Path) }; Ready carries no path
Ready == [tag |-> "Ready", path |-> PathDefault]
Drawing(path) == [tag |-> "Drawing", path |-> path]
Done(path) == [tag |-> "Done", path |-> path]

\* State::is_drawing(&self)
is_drawing(self) == self.tag = "Drawing"

\* done_path without the reset `*self = State::Ready`
done_path_noReset(self) ==
    [state |-> self,
     ret |-> IF self.tag = "Done" THEN Some(self.path) ELSE None]

\* State::done_path(&mut self) -> Option<Path>: the state left and the value
done_path(self) ==
    LET path == IF self.tag = "Done" THEN Some(self.path) ELSE None
    IN  IF path # None
        THEN [state |-> Ready, ret |-> path]
        ELSE [state |-> self, ret |-> path]

\* the closure |p| p.distance(event.pos) < MIN_POINT_DISTANCE over points[..n]
AnyNear(points, n, pos) ==
    \E i \in 1..n : DistanceLess(points[i], pos, MIN_POINT_DISTANCE)

\* the arm that starts drawing with Path::default(), without the clicked point
ReadyLeft1_empty(event) == Drawing(PathDefault)

\* update_for_event, the arm (State::Ready, Left, 1)
ReadyLeft1(event) == Drawing(PathStart(event.pos))

\* the arm that closes the path but keeps it under construction
DrawingLeft1_closeInPlace(old_path, event) ==
    LET closes == AnyNear(old_path.points, Len(old_path.points), event.pos)
        path == PathPush(old_path, event.pos)
    IN  IF closes THEN Drawing(PathClose(path)) ELSE Drawing(path)

\* the arm with the proximity check against the first point only
DrawingLeft1_first(old_path, event) ==
    LET closes == AnyNear(old_path.points, 1, event.pos)
        path == PathPush(old_path, event.pos)
    IN  IF closes THEN Done(PathClose(path)) ELSE Drawing(path)

\* update_for_event, the arm (State::Drawing(path), Left, 1)
DrawingLeft1(old_path, event) ==
    LET closes == AnyNear(old_path.points, Len(old_path.points), event.pos)
        path == PathPush(old_path, event.pos)
    IN  IF closes THEN Done(PathClose(path)) ELSE Drawing(path)

\* the arm with the proximity check against every point, the last included
DrawingLeft2_all(old_path, event) ==
    LET closes == AnyNear(old_path.points, Len(old_path.points), event.pos)
    IN  Done(IF closes THEN PathClose(old_path) ELSE old_path)

\* update_for_event, the arm (State::Drawing(path), Left, 2)
DrawingLeft2(old_path, event) ==
    LET num_points == Len(old_path.points)
        closes == AnyNear(old_path.points, num_points - 1, event.pos)
    IN  Done(IF closes THEN PathClose(old_path) ELSE old_path)

\* update_for_event that leaves the State::Ready it swapped in when no arm
\* matches, instead of putting `old` back
update_for_event_noRestore(self, event) ==
    LET old == self
        next ==
          IF old.tag = "Ready" /\ event.button = "Left" /\ event.count = 1
          THEN Some(ReadyLeft1(event))
          ELSE IF old.tag = "Drawing" /\ event.button = "Left" /\ event.count = 1
          THEN Some(DrawingLeft1(old.path, event))
          ELSE IF old.tag = "Drawing" /\ event.button = "Left" /\ event.count = 2
          THEN Some(DrawingLeft2(old.path, event))
          ELSE None
    IN  IF next # None
        THEN [state |-> next[1], handled |-> TRUE]
        ELSE [state |-> Ready, handled |-> FALSE]

\* update_for_event that returns true whether or not an arm matched
update_for_event_alwaysHandled(self, event) ==
    LET old == self
        next ==
          IF old.tag = "Ready" /\ event.button = "Left" /\ event.count = 1
          THEN Some(ReadyLeft1(event))
          ELSE IF old.tag = "Drawing" /\ event.button = "Left" /\ event.count = 1
          THEN Some(DrawingLeft1(old.path, event))
          ELSE IF old.tag = "Drawing" /\ event.button = "Left" /\ event.count = 2
          THEN Some(DrawingLeft2(old.path, event))
          ELSE None
    IN  IF next # None
        THEN [state |-> next[1], handled |-> TRUE]
        ELSE [state |-> old, handled |-> TRUE]

\* State::update_for_event(&mut self, event) -> bool: the state left and the
\* value returned
update_for_event(self, event) ==
    LET old == self
        next ==
          IF old.tag = "Ready" /\ event.button = "Left" /\ event.count = 1
          THEN Some(ReadyLeft1(event))
          ELSE IF old.tag = "Drawing" /\ event.button = "Left" /\ event.count = 1
          THEN Some(DrawingLeft1(old.path, event))
          ELSE IF old.tag = "Drawing" /\ event.button = "Left" /\ event.count = 2
          THEN Some(DrawingLeft2(old.path, event))
          ELSE None
    IN  IF next # None
        THEN [state |-> next[1], handled |-> TRUE]
        ELSE [state |-> old, handled |-> FALSE]

\* check_state that takes the path out of the state and drops it
check_state_drop(canvas) ==
    LET d == done_path(canvas.state)
    IN  [paths |-> canvas.paths, state |-> d.state, ret |-> d.ret]

\* Canvas::check_state(&mut self): the canvas fields it leaves
check_state(canvas) ==
    LET d == done_path(canvas.state)
    IN  IF d.ret # None
        THEN [paths |-> Append(canvas.paths, d.ret[1]), state |-> d.state,
              ret |-> d.ret]
        ELSE [paths |-> canvas.paths, state |-> d.state, ret |-> d.ret]

\* the record of one Canvas handler call
MouseEv(pos, button, count) ==
    [kind |-> "mouse", pos |-> pos, button |-> button, count |-> count,
     key_code |-> "-"]
MovedEv(pos) ==
    [kind |-> "mouse_moved", pos |-> pos, button |-> "-", count |-> 0,
     key_code |-> "-"]
KeyEv(key_code) ==
    [kind |-> "key_down", pos |-> <<0, 0>>, button |-> "-", count |-> 0,
     key_code |-> key_code]
NoEv ==
    [kind |-> "none", pos |-> <<0, 0>>, button |-> "-", count |-> 0,
     key_code |-> "-"]

\* The mouse events: every left single and double click, and events no
\* transition matches (a triple click, other buttons).
MouseEvents ==
    { MouseEv(pos, "Left", count) : pos \in Points, count \in {1, 2} }
        \cup { MouseEv(<<0, 0>>, "Left", 3), MouseEv(<<2, 2>>, "Right", 1) }

\* the number of points a list of paths holds
RECURSIVE TotalPoints(_)
TotalPoints(ps) ==
    IF ps = <<>> THEN 0 ELSE Len(Head(ps).points) + TotalPoints(Tail(ps))

\* Canvas::new()
CanvasNew ==
    /\ paths = <<>>
    /\ mouse = <<0, 0>>
    /\ state = Ready

CanvasHistoryInit ==
    /\ ev = NoEv
    /\ handled = FALSE
    /\ invalidated = FALSE
    /\ mid = Ready
    /\ ret = None
    /\ clicks = <<>>
    /\ pure = TRUE
    /\ calls = 0

\* Canvas::mouse(&mut self, event, ctx) -> bool
Mouse(event) ==
    LET u == update_for_event(state, event)
        c == check_state([paths |-> paths, state |-> u.state])
        single == event.button = "Left" /\ event.count = 1
    IN  /\ TotalPoints(c.paths) + Len(c.state.path.points) <= MaxTotalPoints
        /\ Len(c.paths) <= MaxPaths
        /\ mid' = u.state
        /\ state' = c.state
        /\ paths' = c.paths
        /\ ret' = c.ret
        /\ handled' = u.handled
        /\ invalidated' = u.handled
        /\ ev' = event
        /\ pure' = (c.state = Ready \/ (pure /\ single))
        /\ clicks' = IF c.state # Ready /\ pure /\ single
                     THEN Append(clicks, event.pos) ELSE <<>>
        /\ UNCHANGED <<mouse, calls>>

\* Canvas::mouse_moved(&mut self, pos, ctx)
MouseMoved(pos) ==
    /\ mouse' = pos
    /\ invalidated' = is_drawing(state)
    /\ handled' = FALSE
    /\ ev' = MovedEv(pos)
    /\ mid' = state
    /\ ret' = None
    /\ UNCHANGED <<paths, state, clicks, pure, calls>>

\* key_down that resets on every key
key_down_anyKey(canvas, event) ==
    [state |-> Ready, paths |-> canvas.paths, invalidated |-> TRUE,
     handled |-> TRUE]

\* key_down whose Backspace clears the finalized paths as well
key_down_clearPaths(canvas, event) ==
    IF event.key_code = "Backspace"
    THEN [state |-> Ready, paths |-> <<>>, invalidated |-> TRUE,
          handled |-> TRUE]
    ELSE [state |-> canvas.state, paths |-> canvas.paths,
          invalidated |-> FALSE, handled |-> FALSE]

\* Canvas::key_down(&mut self, event, ctx) -> bool
key_down(canvas, event) ==
    IF event.key_code = "Backspace"
    THEN [state |-> Ready, paths |-> canvas.paths, invalidated |-> TRUE,
          handled |-> TRUE]
    ELSE [state |-> canvas.state, paths |-> canvas.paths,
          invalidated |-> FALSE, handled |-> FALSE]

KeyDown(event) ==
    LET k == key_down([paths |-> paths, state |-> state], event)
    IN  /\ state' = k.state
        /\ paths' = k.paths
        /\ invalidated' = k.invalidated
        /\ handled' = k.handled
        /\ ev' = event
        /\ pure' = (k.state = Ready)
        /\ clicks' = <<>>
        /\ mid' = state
        /\ ret' = None
        /\ UNCHANGED <<mouse, calls>>

(***************************************************************************)
(* State::done_path called directly, on any State                          *)
(***************************************************************************)
\* the point sequences of length at most n
SeqsUpTo(n) == UNION { [1..k -> Points] : k \in 0..n }

\* the states done_path is called on
ArgStates ==
    LET ArgPaths == [points : SeqsUpTo(MaxArgPoints), closed : BOOLEAN]
    IN  {Ready} \cup { Drawing(p) : p \in ArgPaths } \cup { Done(p) : p \in ArgPaths }

\* one call of done_path, made as Canvas::check_state makes it: the path it
\* returns, if any, is pushed to paths
DonePathCall ==
    LET c == check_state([paths |-> paths, state |-> state])
    IN  /\ calls < MaxCalls
        /\ state' = c.state
        /\ paths' = c.paths
        /\ ret' = c.ret
        /\ mid' = state
        /\ calls' = calls + 1
        /\ UNCHANGED <<mouse, ev, handled, invalidated, clicks, pure>>

(***************************************************************************)
(* toolbar.rs                                                              *)
(***************************************************************************)
TOOLBAR_HEIGHT == 32
TOOLBAR_ITEM_WIDTH == 32

\* ToolbarItem::select() and ToolbarItem::pen(): the name and the hotkey (the
\* icon takes no part in event handling)
ToolbarItemSelect == [name |-> "select", hotkey |-> "v"]
ToolbarItemPen == [name |-> "pen", hotkey |-> "p"]

\* Toolbar::new(items)
ToolbarNew(its) == [items |-> its, selected |-> 0, hot |-> None]

\* Toolbar::basic()
ToolbarBasic == ToolbarNew(<<ToolbarItemSelect, ToolbarItemPen>>)

\* Toolbar::size(&self)
size(self) ==
    [width |-> Len(self.items) * TOOLBAR_ITEM_WIDTH, height |-> TOOLBAR_HEIGHT]

\* (x / w).trunc() as usize, for a whole x: the quotient rounded toward zero,
\* and a negative value cast to 0
TruncAsUsize(x, w) ==
    LET q == IF x >= 0 THEN x \div w ELSE -((-x) \div w)
    IN  IF q < 0 THEN 0 ELSE q

\* the hit test that takes the right and bottom edges as inside
tool_at_pos_inclusive(self, pos) ==
    LET sz == size(self)
    IN  IF pos[1] > 0 /\ pos[2] > 0 /\ pos[1] <= sz.width /\ pos[2] <= sz.height
        THEN Some(TruncAsUsize(pos[1], TOOLBAR_ITEM_WIDTH))
        ELSE None

\* Toolbar::tool_at_pos(&self, pos) -> Option<usize>
tool_at_pos(self, pos) ==
    LET sz == size(self)
    IN  IF pos[1] > 0 /\ pos[2] > 0 /\ pos[1] < sz.width /\ pos[2] < sz.height
        THEN Some(TruncAsUsize(pos[1], TOOLBAR_ITEM_WIDTH))
        ELSE None

\* the 0-based index of the first item whose hotkey is text, if any:
\* items.iter().enumerate().find(|(_, item)| item.hotkey == text)
FindHotkey(its, text) ==
    LET hits == { i \in 1..Len(its) : its[i].hotkey = text }
    IN  IF hits = {} THEN None
        ELSE Some((CHOOSE i \in hits : \A j \in hits : i <= j) - 1)

\* the record of one Toolbar::event call; text is KeyEvent::unmod_text()
TKeyUp(text) == [kind |-> "KeyUp", pos |-> <<0, 0>>, text |-> text]
TMouse(kind, pos) == [kind |-> kind, pos |-> pos, text |-> None]
TNoEv == [kind |-> "none", pos |-> <<0, 0>>, text |-> None]

\* What one Toolbar::event call leaves: the widget fields selected and hot,
\* the capture flag, the context flags, and the value returned.  Unchanged(..)
\* is a call that falls through every arm: nothing set, None returned.
Unchanged(self, act) ==
    [selected |-> self.selected, hot |-> self.hot, active |-> act,
     handled |-> FALSE, invalidated |-> FALSE, action |-> None]

\* Action::from_str(self.items[idx].name.as_str())
\* indexing self.items past its end panics; the panic is recorded in place of
\* the name
IndexPanic == "panic: index out of bounds"

ActionOf(self, idx) ==
    IF idx < Len(self.items) THEN self.items[idx + 1].name ELSE IndexPanic

\* the arm that ignores hotkeys while a press is captured
OnKeyUp_whenIdle(self, act, e) ==
    LET text == IF e.text = None THEN "" ELSE e.text[1]
        found == FindHotkey(self.items, text)
    IN  IF found # None /\ ~act
        THEN [Unchanged(self, act) EXCEPT !.selected = found[1],
                                          !.action = Some(self.items[found[1] + 1].name)]
        ELSE Unchanged(self, act)

\* Toolbar::event, the arm Event::KeyUp(key)
OnKeyUp(self, act, e) ==
    LET text == IF e.text = None THEN "" ELSE e.text[1]
        found == FindHotkey(self.items, text)
    IN  IF found # None
        THEN [Unchanged(self, act) EXCEPT !.selected = found[1],
                                          !.action = Some(ActionOf(self, found[1]))]
        ELSE Unchanged(self, act)

\* the arm without ctx.set_active(true)
OnMouseDown_noCapture(self, act, e) ==
    LET t == tool_at_pos(self, e.pos)
    IN  IF t # None
        THEN [Unchanged(self, act) EXCEPT !.hot = Some(t[1]), !.handled = TRUE,
                                          !.invalidated = TRUE]
        ELSE Unchanged(self, act)

\* Toolbar::event, the arm Event::MouseDown(mouse)
OnMouseDown(self, act, e) ==
    LET t == tool_at_pos(self, e.pos)
    IN  IF t # None
        THEN [Unchanged(self, act) EXCEPT !.hot = Some(t[1]), !.handled = TRUE,
                                          !.active = TRUE, !.invalidated = TRUE]
        ELSE Unchanged(self, act)

\* the arm that selects the pressed item (hot) instead of the item under the
\* release position
OnMouseUp_pressed(self, act, e) ==
    IF act
    THEN LET up == [Unchanged(self, act) EXCEPT !.hot = None, !.active = FALSE,
                                                !.handled = TRUE,
                                                !.invalidated = TRUE]
             t == self.hot
         IN  IF t # None
             THEN [up EXCEPT !.selected = t[1],
                             !.action = Some(self.items[t[1] + 1].name)]
             ELSE up
    ELSE Unchanged(self, act)

\* the arm that ends the capture but leaves hot as it was
OnMouseUp_keepHot(self, act, e) ==
    IF act
    THEN LET up == [Unchanged(self, act) EXCEPT !.active = FALSE,
                                                !.handled = TRUE,
                                                !.invalidated = TRUE]
             t == tool_at_pos(self, e.pos)
         IN  IF t # None
             THEN [up EXCEPT !.selected = t[1],
                             !.action = Some(self.items[t[1] + 1].name)]
             ELSE up
    ELSE Unchanged(self, act)

\* Toolbar::event, the arm Event::MouseUp(mouse)
OnMouseUp(self, act, e) ==
    IF act
    THEN LET up == [Unchanged(self, act) EXCEPT !.hot = None, !.active = FALSE,
                                                !.handled = TRUE,
                                                !.invalidated = TRUE]
             t == tool_at_pos(self, e.pos)
         IN  IF t # None
             THEN [up EXCEPT !.selected = t[1],
                             !.action = Some(ActionOf(self, t[1]))]
             ELSE up
    ELSE Unchanged(self, act)

\* Toolbar::event, the arm Event::MouseMoved(mouse)
OnMouseMoved(self, act, e) ==
    LET h == tool_at_pos(self, e.pos)
    IN  IF h # self.hot
        THEN [Unchanged(self, act) EXCEPT !.hot = h, !.invalidated = TRUE,
                                          !.handled = TRUE]
        ELSE Unchanged(self, act)

\* Toolbar::event(&mut self, event, ctx, ..) -> Option<Action>; `self` holds
\* items, selected and hot, `act` is ctx.is_active() on entry
event(self, act, e) ==
    IF e.kind = "KeyUp" THEN OnKeyUp(self, act, e)
    ELSE IF e.kind = "MouseDown" THEN OnMouseDown(self, act, e)
    ELSE IF e.kind = "MouseUp" THEN OnMouseUp(self, act, e)
    ELSE IF e.kind = "MouseMoved" THEN OnMouseMoved(self, act, e)
    ELSE Unchanged(self, act)

\* The pointer positions toolbar events are drawn from: the edges and the
\* inside of both item cells, and positions off the toolbar on every side.
ToolbarXs == {-1, 0, 1, 16, 31, 32, 40, 48, 63, 64, 80}
ToolbarYs == {-1, 0, 16, 31, 32}
ToolbarPositions == ToolbarXs \X ToolbarYs
\* The key texts: both hotkeys, another character, and no text.
KeyTexts == {Some("v"), Some("p"), Some("x"), None}

ToolbarEvents ==
    { TKeyUp(text) : text \in KeyTexts }
        \cup { TMouse(kind, pos) : kind \in {"MouseDown", "MouseUp", "MouseMoved"},
                                   pos \in ToolbarPositions }

\* the toolbar before its first event: Toolbar::basic(), not captured
ToolbarInit ==
    /\ items = ToolbarBasic.items
    /\ selected = ToolbarBasic.selected
    /\ hot = ToolbarBasic.hot
    /\ active = FALSE
    /\ tev = TNoEv
    /\ thandled = FALSE
    /\ tinvalidated = FALSE
    /\ action = None
    /\ tclick = FALSE
    /\ tpos = None
    /\ tmoved = None

\* the framework delivers event e to the toolbar
ToolbarEvent(e) ==
    LET r == event([items |-> items, selected |-> selected, hot |-> hot],
                   active, e)
    IN  /\ selected' = r.selected
        /\ hot' = r.hot
        /\ active' = r.active
        /\ thandled' = r.handled
        /\ tinvalidated' = r.invalidated
        /\ action' = r.action
        /\ tev' = e
        /\ tclick' = (tev.kind = "MouseDown" /\ e.kind = "MouseUp" /\ e.pos = tev.pos)
        /\ UNCHANGED items

(***************************************************************************)
(* Specifications                                                          *)
(***************************************************************************)
\* The canvas under any sequence of mouse, pointer-move and key events.
Init == CanvasNew /\ CanvasHistoryInit /\ ToolbarInit

Next ==
    \/ \E e \in MouseEvents : Mouse(e) /\ UNCHANGED tvars
    \/ \E pos \in MovePoints : MouseMoved(pos) /\ UNCHANGED tvars
    \/ \E key_code \in KeyCodes : KeyDown(KeyEv(key_code)) /\ UNCHANGED tvars

Spec == Init /\ [][Next]_vars

\* The toolbar under any sequence of key and pointer events.
ToolbarNext ==
    \E e \in ToolbarEvents :
        ToolbarEvent(e) /\ UNCHANGED <<tpos, tmoved>> /\ UNCHANGED cvars

ToolbarSpec == Init /\ [][ToolbarNext]_vars

\* The toolbar under any sequence of key and pointer events at a few
\* positions, with the positions of the most recent pointer event and of the
\* most recent MouseMoved recorded.
PointerPositions == {0, 16, 48, 80} \X {16, 32}

PointerEvents ==
    { TKeyUp(text) : text \in KeyTexts }
        \cup { TMouse(kind, pos) : kind \in {"MouseDown", "MouseUp", "MouseMoved"},
                                   pos \in PointerPositions }

PointerEvent(e) ==
    /\ ToolbarEvent(e)
    /\ tpos' = (IF e.kind = "KeyUp" THEN tpos ELSE Some(e.pos))
    /\ tmoved' = (IF e.kind = "MouseMoved" THEN Some(e.pos) ELSE tmoved)

PointerNext == \E e \in PointerEvents : PointerEvent(e) /\ UNCHANGED cvars

PointerSpec == Init /\ [][PointerNext]_vars

\* done_path called up to MaxCalls times in a row on any State.
DonePathInit ==
    /\ state \in ArgStates
    /\ paths = <<>>
    /\ mouse = <<0, 0>>
    /\ CanvasHistoryInit
    /\ ToolbarInit

DonePathNext == DonePathCall /\ UNCHANGED tvars

DonePathSpec == DonePathInit /\ [][DonePathNext]_vars

(***************************************************************************)
(* Properties of the canvas                                                *)
(***************************************************************************)
\* whether some arm of update_for_event matches event e in state st
Matches(st, e) ==
    /\ e.button = "Left"
    /\ \/ st.tag = "Ready" /\ e.count = 1
       \/ st.tag = "Drawing" /\ e.count \in {1, 2}

\* whether p is within the proximity threshold of points[i] for some i <= n
NearSome(points, n, p) ==
    \E i \in 1..n :
        (points[i][1] - p[1]) * (points[i][1] - p[1])
            + (points[i][2] - p[2]) * (points[i][2] - p[2])
        < MIN_POINT_DISTANCE * MIN_POINT_DISTANCE

\* whether the points of sequence ps are pairwise farther apart than the
\* proximity threshold
PairwiseFar(ps) ==
    \A i, j \in 1..Len(ps) :
        i < j =>
            (ps[i][1] - ps[j][1]) * (ps[i][1] - ps[j][1])
                + (ps[i][2] - ps[j][2]) * (ps[i][2] - ps[j][2])
            > MIN_POINT_DISTANCE * MIN_POINT_DISTANCE

\* C1: no handler returns with the state Done; a Canvas::mouse call in which
\* update_for_event produced Done(path) leaves the state Ready and paths
\* extended by exactly that path, and any other mouse call leaves paths as
\* they were.
C1_DoneHandedOff ==
    [][ /\ state'.tag # "Done"
        /\ ev'.kind = "mouse" =>
             IF mid'.tag = "Done"
             THEN state' = Ready /\ paths' = Append(paths, mid'.path)
             ELSE state' = mid' /\ paths' = paths ]_vars

C1_Witness ==
    /\ ev.kind = "mouse"
    /\ mid.tag = "Done"
    /\ state = Ready
    /\ Len(mid.path.points) = 3
    /\ paths = <<mid.path>>

\* C2: in Drawing(path) a single left click at P within the threshold of any
\* point of the path finalizes the path with P appended and closed = TRUE
\* (one point more than before the click); the clicks (0,0), (100,0),
\* (100,100), (2,2) finalize one closed path of exactly 4 points.
C2_Scenario == << <<0, 0>>, <<100, 0>>, <<100, 100>>, <<2, 2>> >>

C2_SingleClickCloses ==
    /\ [][ ( /\ state.tag = "Drawing"
             /\ ev'.kind = "mouse" /\ ev'.button = "Left" /\ ev'.count = 1
             /\ NearSome(state.path.points, Len(state.path.points), ev'.pos) )
           => /\ state' = Ready
              /\ paths' = Append(paths,
                     [points |-> Append(state.path.points, ev'.pos),
                      closed |-> TRUE])
              /\ Len(paths'[Len(paths')].points) = Len(state.path.points) + 1
        ]_vars
    /\ [][ ( /\ pure /\ clicks = SubSeq(C2_Scenario, 1, 3)
             /\ ev' = MouseEv(C2_Scenario[4], "Left", 1) )
           => /\ state' = Ready
              /\ paths' = Append(paths,
                     [points |-> C2_Scenario, closed |-> TRUE])
              /\ Len(paths'[Len(paths')].points) = 4
        ]_vars

\* the scenario was clicked and its path is the one finalized path
C2_Witness ==
    /\ ev = MouseEv(<<2, 2>>, "Left", 1)
    /\ mid = Done([points |-> C2_Scenario, closed |-> TRUE])
    /\ state = Ready
    /\ paths = << [points |-> C2_Scenario, closed |-> TRUE] >>

C4_DoubleClickFinalizes ==
    [][ ( /\ state.tag = "Drawing"
          /\ ev'.kind = "mouse" /\ ev'.button = "Left" /\ ev'.count = 2 )
        => /\ state' = Ready
           /\ paths' = Append(paths,
                 [points |-> state.path.points,
                  closed |-> NearSome(state.path.points,
                                      Len(state.path.points) - 1, ev'.pos)])
      ]_vars

\* a double click on the last point of a two-point path: finalized open
C4_Witness ==
    /\ ev.kind = "mouse" /\ ev.count = 2
    /\ mid.tag = "Done"
    /\ Len(mid.path.points) = 2
    /\ ev.pos = mid.path.points[2]
    /\ ~mid.path.closed
    /\ paths # <<>>

\* C5: a mouse event no transition matches returns false and leaves the
\* state and the finalized paths exactly as they were.
C5_UnmatchedIsNoOp ==
    [][ (ev'.kind = "mouse" /\ ~Matches(state, ev'))
        => /\ handled' = FALSE
           /\ state' = state
           /\ paths' = paths ]_vars

C5_Witness ==
    /\ ev.kind = "mouse" /\ ev.button = "Right"
    /\ state.tag = "Drawing"
    /\ Len(state.path.points) = 2
    /\ ~handled
    /\ paths # <<>>

\* C6: a Backspace key-down sets the state to Ready and leaves paths
\* unchanged (the path under construction is dropped, not finalized); any
\* other key leaves state and paths unchanged and returns false.
C6_KeyDown ==
    [][ ev'.kind = "key_down"
        => IF ev'.key_code = "Backspace"
           THEN state' = Ready /\ paths' = paths /\ handled'
           ELSE state' = state /\ paths' = paths /\ ~handled' ]_vars

\* Backspace while a two-point path was under construction
C6_Witness ==
    /\ ev.kind = "key_down" /\ ev.key_code = "Backspace"
    /\ mid.tag = "Drawing"
    /\ Len(mid.path.points) = 2
    /\ state = Ready
    /\ Len(paths) = 1

\* C7: done_path on Ready or Drawing returns None and leaves the state; on
\* Done(path) it returns the path and leaves Ready; so a call right after
\* another returns None and changes nothing.
C7_DonePathIdempotent ==
    /\ [][ calls' = calls + 1
           => IF state.tag = "Done"
              THEN ret' = Some(state.path) /\ state' = Ready
              ELSE ret' = None /\ state' = state ]_vars
    /\ [](calls >= 2 => ret = None /\ state = mid)

\* two calls from Done(path), path of two points: the first returned the
\* path, the second None
C7_Witness ==
    /\ calls = 2
    /\ Len(paths) = 1
    /\ Len(paths[1].points) = 2
    /\ state = Ready
    /\ mid = Ready
    /\ ret = None

(***************************************************************************)
(* Properties of the toolbar                                               *)
(***************************************************************************)
\* the toolbar value of the current state
Self == [items |-> items, selected |-> selected, hot |-> hot]

\* whether pos lies in the rectangle [0, width) x [0, height)
InRect(pos) ==
    /\ 0 <= pos[1] /\ pos[1] < Len(items) * TOOLBAR_ITEM_WIDTH
    /\ 0 <= pos[2] /\ pos[2] < TOOLBAR_HEIGHT

\* the item a position is over: floor(x / item width) inside the rectangle,
\* no item outside it
ItemOver(pos) ==
    IF InRect(pos) THEN Some(pos[1] \div TOOLBAR_ITEM_WIDTH) ELSE None

\* C8: tool_at_pos maps every position of [0, width) x [0, height) to the
\* item floor(x / 32) and every other position to no item (stated of the
\* position of each pointer event delivered).
C8_ToolAtPos ==
    tev.kind \in {"MouseDown", "MouseUp", "MouseMoved"}
        => tool_at_pos(Self, tev.pos) = ItemOver(tev.pos)

\* C9: a MouseUp while captured clears hot, ends capture and marks the event
\* handled; over item i it sets selected = i and returns the action named
\* after item i; over no item it leaves selected and returns no action.
C9_MouseUpCaptured ==
    [][ (active /\ tev'.kind = "MouseUp")
        => /\ hot' = None
           /\ ~active'
           /\ thandled'
           /\ IF ItemOver(tev'.pos) # None
              THEN /\ selected' = ItemOver(tev'.pos)[1]
                   /\ action' = Some(items[ItemOver(tev'.pos)[1] + 1].name)
              ELSE /\ selected' = selected
                   /\ action' = None ]_vars

\* C10: a click (MouseDown then MouseUp at one position) at the centre
\* (32 * i + 16, 16) of item i ends with selected = i and the action named
\* after item i; a click at (40, 16) ends with selected = 1 and "pen"; a click
\* outside [0, width) x [0, height) returns no action and leaves selected as
\* it was before the click (its MouseDown never changes selected).
C10_Click ==
    /\ [](tclick =>
            \A i \in 0..(Len(items) - 1) :
                tev.pos = <<TOOLBAR_ITEM_WIDTH * i + TOOLBAR_ITEM_WIDTH \div 2,
                            TOOLBAR_HEIGHT \div 2>>
                    => selected = i /\ action = Some(items[i + 1].name))
    /\ [](tclick /\ tev.pos = <<40, 16>> => selected = 1 /\ action = Some("pen"))
    /\ [][ (tclick' /\ ~InRect(tev'.pos))
             => action' = None /\ selected' = selected ]_vars
    /\ [][ tev'.kind = "MouseDown" => selected' = selected ]_vars

\* the click at (40, 16) on a toolbar that had item 0 selected
C10_Witness ==
    /\ tclick
    /\ tev = TMouse("MouseUp", <<40, 16>>)
    /\ selected = 1
    /\ action = Some("pen")
    /\ ~active

\* C11: a KeyUp whose text is the hotkey of an item sets selected to that
\* item's index and returns the action named after it, whatever hot, selected
\* and the capture flag are ("p": index 1 and "pen", "v": index 0 and
\* "select"); a KeyUp with any other text, or none, changes nothing and
\* returns no action.
C11_Hotkey ==
    [][ tev'.kind = "KeyUp"
        => /\ \A i \in 1..Len(items) :
                tev'.text = Some(items[i].hotkey)
                    => selected' = i - 1 /\ action' = Some(items[i].name)
           /\ tev'.text = Some("p") => selected' = 1 /\ action' = Some("pen")
           /\ tev'.text = Some("v") => selected' = 0 /\ action' = Some("select")
           /\ (\A i \in 1..Len(items) : tev'.text # Some(items[i].hotkey))
                => /\ selected' = selected /\ hot' = hot /\ active' = active
                   /\ action' = None /\ ~thandled' /\ ~tinvalidated'
      ]_vars

\* "p" released in the middle of a press on item 0, "select" selected before
C11_Witness ==
    /\ tev = TKeyUp(Some("p"))
    /\ selected = 1
    /\ action = Some("pen")
    /\ active
    /\ hot = Some(0)

\* C12: a MouseMoved while no press is captured sets hot to the item under the
\* pointer, or to none when the pointer is over no item; it never changes
\* selected and never emits an action; the event is consumed and a repaint is
\* requested exactly when hot changed.
C12_MouseMoved ==
    [][ (tev'.kind = "MouseMoved" /\ ~active)
        => /\ hot' = ItemOver(tev'.pos)
           /\ selected' = selected
           /\ action' = None
           /\ thandled' = (hot' # hot)
           /\ tinvalidated' = (hot' # hot)
      ]_vars

\* C13: a MouseDown over item i sets hot to i, marks the event consumed and
\* begins pointer capture, without changing selected and without an action;
\* a MouseDown over no item changes neither hot nor selected nor the capture
\* flag and is not consumed.
C13_MouseDown ==
    [][ tev'.kind = "MouseDown"
        => /\ selected' = selected
           /\ action' = None
           /\ IF ItemOver(tev'.pos) # None
              THEN hot' = ItemOver(tev'.pos) /\ thandled' /\ active'
              ELSE hot' = hot /\ active' = active /\ ~thandled'
      ]_vars

\* C14 as stated: after any sequence of pointer and key events, hot = Some(i)
\* implies that capture is active or that the position of the most recent
\* pointer event lies over item i.
C14_Original ==
    hot # None => active \/ (tpos # None /\ ItemOver(tpos[1]) = hot)

\* C14: after any sequence of pointer and key events, hot = Some(i) implies
\* that capture is active or that the position of the most recent MouseMoved
\* event lies over item i.
C14_HotFollowsMove ==
    hot # None => active \/ (tmoved # None /\ ItemOver(tmoved[1]) = hot)

\* the pointer moved over item 0, then a button went down and up off the
\* toolbar: item 0 is still hot
C14_Witness ==
    /\ hot = Some(0)
    /\ ~active
    /\ tmoved = Some(<<16, 16>>)
    /\ tpos = Some(<<80, 16>>)
    /\ tev = TMouse("MouseUp", <<80, 16>>)

\* C15: selected starts at index 0 and, after any sequence of events on
\* Toolbar::basic(), is a valid index into the item list
\* (0 <= selected < number of items), so exactly one tool is selected and
\* indexing items[idx] in the MouseUp handler is never out of bounds.
C15_SelectedValid ==
    /\ tev = TNoEv => selected = 0
    /\ selected \in 0..(Len(items) - 1)
    /\ action # Some(IndexPanic)

\* a press released on the last pixel inside the last item
C15_Witness ==
    /\ tev = TMouse("MouseUp", <<63, 31>>)
    /\ thandled
    /\ selected = 1
    /\ selected = Len(items) - 1
    /\ action = Some("pen")

\* C20: a MouseUp while the toolbar does not hold the capture changes neither
\* selected nor hot, is not handled and emits no action, even over an item;
\* a pointer event selects a tool only as a MouseUp over an item while the
\* capture begun by a MouseDown over some item is held, and the item selected
\* is the one under the release position, not the press position.
C20_ReleaseSelects ==
    [][ /\ (tev'.kind = "MouseUp" /\ ~active)
             => /\ selected' = selected /\ hot' = hot /\ active' = active
                /\ ~thandled' /\ action' = None
        /\ (tev'.kind # "KeyUp" /\ (selected' # selected \/ action' # None))
             => /\ tev'.kind = "MouseUp"
                /\ active
                /\ ItemOver(tev'.pos) = Some(selected')
                /\ action' = Some(items[selected' + 1].name)
        /\ (active' /\ ~active)
             => tev'.kind = "MouseDown" /\ ItemOver(tev'.pos) # None
      ]_vars

\* a captured release over item 1 that does not follow a press at the same
\* position
C20_Witness ==
    /\ tev = TMouse("MouseUp", <<48, 16>>)
    /\ ~tclick
    /\ thandled
    /\ ~active
    /\ selected = 1
    /\ action = Some("pen")

(***************************************************************************)
(* Further properties of the canvas                                        *)
(***************************************************************************)
\* C16: Canvas::mouse calls invalidate exactly when update_for_event reports
\* the event handled, and update_for_event reports it handled exactly when
\* the state it leaves (before the hand-off of a Done path) differs from the
\* state before the event; a Backspace key-down always requests a repaint.
C16_RepaintOnChange ==
    [][ /\ ev'.kind = "mouse"
             => /\ invalidated' = handled'
                /\ handled' = (mid' # state)
        /\ (ev'.kind = "key_down" /\ ev'.key_code = "Backspace")
             => invalidated'
      ]_vars

\* a double click that finalized a path: handled and repainted
C16_Witness ==
    /\ ev.kind = "mouse" /\ ev.count = 2
    /\ mid.tag = "Done"
    /\ state = Ready
    /\ handled
    /\ invalidated

\* C17: a path held in Drawing always has at least one point, so the slice
\* points[..num_points - 1] of the double-click arm and points[node_count - 1]
\* of the drawing code never underflow; a double click on a one-point path
\* checks proximity against no points and finalizes an open one-point path.
C17_DrawingNonEmpty ==
    /\ [](state.tag = "Drawing" => Len(state.path.points) >= 1)
    /\ [][ ( /\ state.tag = "Drawing"
             /\ Len(state.path.points) = 1
             /\ ev'.kind = "mouse" /\ ev'.button = "Left" /\ ev'.count = 2 )
           => /\ mid' = Done([points |-> state.path.points, closed |-> FALSE])
              /\ paths' = Append(paths, [points |-> state.path.points,
                                         closed |-> FALSE])
         ]_vars

\* a double click on the only point of a path
C17_Witness ==
    /\ ev.kind = "mouse" /\ ev.button = "Left" /\ ev.count = 2
    /\ mid.tag = "Done"
    /\ mid.path = [points |-> <<ev.pos>>, closed |-> FALSE]
    /\ paths = <<mid.path>>
    /\ state = Ready

\* C18: in every reachable canvas state a path held in Drawing has
\* closed = FALSE; the flag is set only in the transition that moves the path
\* to Done, so every closed path is in the finalized list, and every finalized
\* closed path has at least 2 points.
C18_ClosedOnlyFinal ==
    /\ state.tag = "Drawing" => ~state.path.closed
    /\ mid.tag = "Drawing" => ~mid.path.closed
    /\ (mid.tag = "Done" /\ mid.path.closed)
         => paths # <<>> /\ paths[Len(paths)] = mid.path
    /\ \A i \in 1..Len(paths) :
         paths[i].closed => Len(paths[i].points) >= 2

\* a two-point closed path finalized, and the next path under construction
C18_Witness ==
    /\ paths = << [points |-> << <<0, 0>>, <<2, 2>> >>, closed |-> TRUE] >>
    /\ state.tag = "Drawing"
    /\ Len(state.path.points) = 2
    /\ ~state.path.closed

=============================================================================
